---- MODULE Spec2Model ----
(***************************************************************************)
(* A model of the audit and remediation functions of AuditLogTool.py: the  *)
(* scan functions (find_missing_or_broken_assets, audit_naming_and_nanite, *)
(* find_unused_assets), the fix functions (enable_nanite_for_all_flagged,  *)
(* auto_fix_naming) and the four handlers of AuditLogController; and of    *)
(* the visibility tools of world_tools_main.py (isolate, restore, ghost    *)
(* mode).                                                                  *)
(*                                                                         *)
(* Strings are sequences of one-character strings, so that startswith,    *)
(* substring tests, splitting and case conversion are computed as Python   *)
(* computes them.                                                          *)
(***************************************************************************)
EXTENDS Integers, Sequences, FiniteSets, TLC

VARIABLES reg, out, prev, level, tool

vars == <<reg, out, prev, level, tool>>

---------------------------------------------------------------------------
(* Bounds of the model *)

\* number of assets the asset registry enumerates
NumRecords == 3

\* number of actors in the level
NumActors == 3

\* at most this many assets of a registry have an adapter fault
MaxFaults == 1

---------------------------------------------------------------------------
(* Characters and strings *)

UpperSeq == <<"A","B","C","D","E","F","G","H","I","J","K","L","M",
              "N","O","P","Q","R","S","T","U","V","W","X","Y","Z">>

LowerSeq == <<"a","b","c","d","e","f","g","h","i","j","k","l","m",
              "n","o","p","q","r","s","t","u","v","w","x","y","z">>

Digits == {"0","1","2","3","4","5","6","7","8","9"}

Range(s) == {s[i] : i \in 1..Len(s)}

UpperSet == Range(UpperSeq)

LowerSet == Range(LowerSeq)

\* str.lower() of one character
Lower(c) ==
    IF c \in UpperSet
    THEN LowerSeq[CHOOSE i \in 1..Len(UpperSeq) : UpperSeq[i] = c]
    ELSE c

\* str.upper() of one character
Upper(c) ==
    IF c \in LowerSet
    THEN UpperSeq[CHOOSE i \in 1..Len(LowerSeq) : LowerSeq[i] = c]
    ELSE c

\* s.startswith(p)
StartsWith(s, p) ==
    /\ Len(p) <= Len(s)
    /\ SubSeq(s, 1, Len(p)) = p

\* sub in s
Contains(s, sub) ==
    \E k \in 0..(Len(s) - Len(sub)) : SubSeq(s, k + 1, k + Len(sub)) = sub

\* sep.join(parts)
RECURSIVE Join(_, _)
Join(parts, sep) ==
    IF parts = <<>> THEN <<>>
    ELSE IF Len(parts) = 1 THEN parts[1]
    ELSE parts[1] \o sep \o Join(Tail(parts), sep)

\* s.split(sep) for a one-character separator, empty pieces kept
RECURSIVE SplitAcc(_, _, _)
SplitAcc(s, sep, cur) ==
    IF s = <<>> THEN <<cur>>
    ELSE IF Head(s) = sep THEN <<cur>> \o SplitAcc(Tail(s), sep, <<>>)
    ELSE SplitAcc(Tail(s), sep, Append(cur, Head(s)))

Split(s, sep) == SplitAcc(s, sep, <<>>)

\* str.capitalize(): first character upper-cased, the rest lower-cased
Capitalize(w) ==
    [i \in 1..Len(w) |-> IF i = 1 THEN Upper(w[i]) ELSE Lower(w[i])]

---------------------------------------------------------------------------
(* String literals of the program *)

Space == " "
Underscore == "_"

StrNew == <<"N","e","w">>
StrUntitled == <<"U","n","t","i","t","l","e","d">>
StrGame == <<"/","G","a","m","e">>

StrStaticMesh == <<"S","t","a","t","i","c","M","e","s","h">>
StrMaterialInstance ==
    <<"M","a","t","e","r","i","a","l","I","n","s","t","a","n","c","e">>
StrMaterial == <<"M","a","t","e","r","i","a","l">>
StrTexture == <<"T","e","x","t","u","r","e">>
StrBlueprint == <<"B","l","u","e","p","r","i","n","t">>
StrSound == <<"S","o","u","n","d">>

None == "None"
IndexError == "IndexError"
ContainsSpaces == "Contains spaces"
TempPlaceholder == "Temp/placeholder name"
StartsLowercase == "Starts lowercase"

---------------------------------------------------------------------------
(* Helpers of AuditLogTool.py *)

\* asset_data.package_name: the package path, a slash and the asset name
PackageName(a) == a.package_path \o <<"/">> \o a.asset_name

build_object_path(a) == PackageName(a) \o <<".">> \o a.asset_name

is_under_game(a) == StartsWith(PackageName(a), StrGame)

is_static_mesh_asset(a) == a.asset_class = StrStaticMesh

\* the reason a name is bad, None, or IndexError when asset_name[0] raises
bad_name(asset_name) ==
    IF Space \in Range(asset_name) THEN ContainsSpaces
    ELSE IF StartsWith(asset_name, StrNew) \/ StartsWith(asset_name, StrUntitled)
         THEN TempPlaceholder
    ELSE IF asset_name = <<>> THEN IndexError
    ELSE IF Lower(asset_name[1]) = asset_name[1] THEN StartsLowercase
    ELSE None

\* get_prefix_for_class without the fallback of line 75: a class that no
\* rule matches gets the empty prefix
get_prefix_for_class_no_default(asset_class) ==
    IF Contains(asset_class, StrStaticMesh) THEN <<"S","M","_">>
    ELSE IF Contains(asset_class, StrMaterialInstance) THEN <<"M","I","_">>
    ELSE IF Contains(asset_class, StrMaterial) THEN <<"M","_">>
    ELSE IF Contains(asset_class, StrTexture) THEN <<"T","_">>
    ELSE IF Contains(asset_class, StrBlueprint) THEN <<"B","P","_">>
    ELSE IF Contains(asset_class, StrSound) THEN <<"S","_">>
    ELSE <<>>

get_prefix_for_class(asset_class) ==
    IF Contains(asset_class, StrStaticMesh) THEN <<"S","M","_">>
    ELSE IF Contains(asset_class, StrMaterialInstance) THEN <<"M","I","_">>
    ELSE IF Contains(asset_class, StrMaterial) THEN <<"M","_">>
    ELSE IF Contains(asset_class, StrTexture) THEN <<"T","_">>
    ELSE IF Contains(asset_class, StrBlueprint) THEN <<"B","P","_">>
    ELSE IF Contains(asset_class, StrSound) THEN <<"S","_">>
    ELSE <<"A","_">>

\* the characters of [A-Za-z0-9_]
WordChars == UpperSet \cup LowerSet \cup Digits \cup {Underscore}

\* re.sub(r"[^A-Za-z0-9_]", "_", name)
SubNonWord(name) ==
    [i \in 1..Len(name) |->
        IF name[i] \in WordChars
        THEN name[i] ELSE Underscore]

\* name.replace(" ", "_")
ReplaceSpaces(name) ==
    [i \in 1..Len(name) |-> IF name[i] = Space THEN Underscore ELSE name[i]]

\* [w.capitalize() for w in parts if w]
RECURSIVE CapitalizedWords(_)
CapitalizedWords(parts) ==
    IF parts = <<>> THEN <<>>
    ELSE IF Head(parts) = <<>> THEN CapitalizedWords(Tail(parts))
    ELSE <<Capitalize(Head(parts))>> \o CapitalizedWords(Tail(parts))

\* clean_asset_name without w.capitalize()
clean_asset_name_as_is(name) ==
    LET Words(parts) == SelectSeq(parts, LAMBDA w : w # <<>>)
    IN  Join(Words(Split(ReplaceSpaces(SubNonWord(name)), Underscore)),
             <<Underscore>>)

\* clean_asset_name without the filter 'if w': empty pieces are kept
clean_asset_name_keep_empty(name) ==
    LET parts == Split(ReplaceSpaces(SubNonWord(name)), Underscore)
    IN  Join([k \in 1..Len(parts) |-> Capitalize(parts[k])], <<Underscore>>)

clean_asset_name(name) ==
    Join(CapitalizedWords(Split(ReplaceSpaces(SubNonWord(name)), Underscore)),
         <<Underscore>>)

---------------------------------------------------------------------------
(* The registry adapter (unreal.EditorAssetLibrary and the asset objects)  *)

\* An asset of the registry is a record
\*   package_path, asset_name, asset_class : strings
\*   nanite       : nanite_settings.enabled of the loaded object
\*   saved        : the loaded object has no unsaved change
\*   referencers  : what find_package_referencers_for_asset returns
\*   fault        : the adapter call that fails for this asset, if any
NoFault == "none"
LoadFault == "load"              \* load_asset raises or returns None
ReadFault == "read"              \* get_editor_property raises
SetFault == "set"                \* set_editor_property raises
SaveFalse == "saveFalse"         \* save_loaded_asset returns False
SaveRaise == "saveRaise"         \* save_loaded_asset raises
RenameFalse == "renameFalse"     \* rename_asset returns False
RenameRaise == "renameRaise"     \* rename_asset raises
RefsRaise == "refsRaise"         \* find_package_referencers_for_asset raises

\* a loader that returns an object for every asset
load_asset_safe_any(a) == TRUE

\* whether load_asset_safe returns an object
load_asset_safe(a) == a.fault # LoadFault

\* the destination package of a rename already holds an asset
DestinationExists(r, i, new_name) ==
    \E j \in 1..Len(r) :
        /\ j # i
        /\ r[j].package_path = r[i].package_path
        /\ r[j].asset_name = new_name

\* unreal.EditorAssetLibrary.rename_asset(old_path, pkg_path/new_name):
\* raises, or returns whether the asset was renamed; the editor refuses a
\* destination that exists
rename_asset(r, i, new_name) ==
    IF r[i].fault = RenameRaise
    THEN [raised |-> TRUE, success |-> FALSE, reg |-> r]
    ELSE IF r[i].fault = RenameFalse \/ DestinationExists(r, i, new_name)
    THEN [raised |-> FALSE, success |-> FALSE, reg |-> r]
    ELSE [raised |-> FALSE, success |-> TRUE,
          reg |-> [r EXCEPT ![i].asset_name = new_name]]

---------------------------------------------------------------------------
(* Scan functions *)

MsgLoadFailed == "Asset failed to load / possibly missing"
MsgNaming == "Naming issue"
MsgNanite == "StaticMesh has Nanite DISABLED"
MsgUnused == "Unused asset (no referencers)"

\* [a for a in asset_reg.get_all_assets() if is_under_game(a)]
GameAssets(r) == SelectSeq(r, is_under_game)

find_missing_or_broken_assets(r) ==
    LET IsBroken(a) == ~load_asset_safe(a)
        broken == SelectSeq(GameAssets(r), IsBroken)
    IN  [k \in 1..Len(broken) |-> <<build_object_path(broken[k]), MsgLoadFailed>>]

\* the nanite check whose except branch does not set enabled to False
NaniteEnabledOrStored(a) == a.nanite

\* the value of enabled after the try/except of the nanite check
NaniteEnabledOrFalse(a) == IF a.fault = ReadFault THEN FALSE ELSE a.nanite

\* returns the two lists, or raised when bad_name raises
audit_naming_and_nanite(r) ==
    LET all == GameAssets(r)
        Raises(a) == bad_name(a.asset_name) = IndexError
        BadlyNamed(a) == bad_name(a.asset_name) # None
        NaniteOff(a) ==
            /\ is_static_mesh_asset(a)
            /\ load_asset_safe(a)
            /\ ~NaniteEnabledOrFalse(a)
        named == SelectSeq(all, BadlyNamed)
        meshes == SelectSeq(all, NaniteOff)
    IN  IF SelectSeq(all, Raises) # <<>>
        THEN [raised |-> TRUE, naming_issues |-> <<>>, nanite_issues |-> <<>>]
        ELSE [raised |-> FALSE,
              naming_issues |->
                  [k \in 1..Len(named) |->
                      <<build_object_path(named[k]), MsgNaming,
                        bad_name(named[k].asset_name)>>],
              nanite_issues |->
                  [k \in 1..Len(meshes) |->
                      <<build_object_path(meshes[k]), MsgNanite>>]]

\* find_unused_assets with the test of line 151 inverted
find_used_assets(r) ==
    LET all == GameAssets(r)
        Raises(a) == a.fault = RefsRaise
        HasRefs(a) == a.referencers # {}
        used == SelectSeq(all, HasRefs)
    IN  IF SelectSeq(all, Raises) # <<>>
        THEN [raised |-> TRUE, unused |-> <<>>]
        ELSE [raised |-> FALSE,
              unused |->
                  [k \in 1..Len(used) |->
                      <<build_object_path(used[k]), MsgUnused>>]]

\* returns the list, or raised when the referencer lookup raises
find_unused_assets(r) ==
    LET all == GameAssets(r)
        Raises(a) == a.fault = RefsRaise
        NoRefs(a) == a.referencers = {}
        lonely == SelectSeq(all, NoRefs)
    IN  IF SelectSeq(all, Raises) # <<>>
        THEN [raised |-> TRUE, unused |-> <<>>]
        ELSE [raised |-> FALSE,
              unused |->
                  [k \in 1..Len(lonely) |->
                      <<build_object_path(lonely[k]), MsgUnused>>]]

---------------------------------------------------------------------------
(* Fix functions *)

\* the write calls the engine issues to the adapter, in order; an asset is
\* named by its position in the registry's enumeration
CallSetFlag == "SetFlag"
CallPersist == "Persist"
CallRename == "Rename"

\* NaniteStep without the write of lines 182 to 184: the mesh is saved and
\* counted, its flag is left as it was
NaniteStepNoWrite(st, i) ==
    LET a == st.reg[i] IN
    IF ~is_under_game(a) THEN st
    ELSE IF ~is_static_mesh_asset(a) THEN st
    ELSE IF ~load_asset_safe(a) THEN st
    ELSE IF a.fault = ReadFault THEN st
    ELSE IF a.nanite THEN st
    ELSE IF a.fault = SaveRaise
    THEN [st EXCEPT !.calls = Append(@, <<CallPersist, i>>)]
    ELSE [st EXCEPT !.calls = Append(@, <<CallPersist, i>>),
                    !.changed = @ + 1]

\* one iteration of the loop of enable_nanite_for_all_flagged on asset i
NaniteStep(st, i) ==
    LET a == st.reg[i] IN
    IF ~is_under_game(a) THEN st
    ELSE IF ~is_static_mesh_asset(a) THEN st
    ELSE IF ~load_asset_safe(a) THEN st
    ELSE IF a.fault = ReadFault THEN st
    ELSE IF a.nanite THEN st
    ELSE IF a.fault = SetFault
    THEN [st EXCEPT !.calls = Append(@, <<CallSetFlag, i>>)]
    ELSE IF a.fault = SaveRaise
    THEN [st EXCEPT !.reg[i].nanite = TRUE, !.reg[i].saved = FALSE,
                    !.calls = @ \o << <<CallSetFlag, i>>, <<CallPersist, i>> >>]
    ELSE [st EXCEPT !.reg[i].nanite = TRUE,
                    !.reg[i].saved = (a.fault # SaveFalse),
                    !.calls = @ \o << <<CallSetFlag, i>>, <<CallPersist, i>> >>,
                    !.changed = @ + 1]

RECURSIVE NaniteLoop(_, _)
NaniteLoop(st, i) ==
    IF i > Len(st.reg) THEN st
    ELSE CHOOSE end \in {NaniteLoop(s, i + 1) : s \in {NaniteStep(st, i)}} : TRUE

enable_nanite_for_all_flagged(r) ==
    NaniteLoop([reg |-> r, changed |-> 0, calls |-> <<>>], 1)

MsgFailedRename == "Failed to rename"

\* the test of line 208 replaced by the naming check: an asset is renamed
\* when bad_name gives a reason for its name
NeedsRenameIfFlagged(name, class) == bad_name(name) # None

\* the name does not carry the prefix of the class yet
NeedsRename(name, class) == ~StartsWith(name, get_prefix_for_class(class))

\* new_name without clean_asset_name: the prefix and the old name as it is
CanonicalNameUncleaned(name, class) == get_prefix_for_class(class) \o name

\* new_name without the prefix: the cleaned old name alone
CanonicalNameNoPrefix(name, class) == clean_asset_name(name)

\* new_name: the prefix of the class and the cleaned old name
CanonicalName(name, class) == get_prefix_for_class(class) \o clean_asset_name(name)

\* FixRename that duplicates instead of renaming: on success the asset keeps
\* its old name and a copy with the new name is added to the registry
FixRenameDuplicating(st, old_name, new_name, i) ==
    LET called == Append(st.calls, <<CallRename, i, new_name>>)
        Outcome(res) ==
            IF res.raised
            THEN [st EXCEPT !.calls = called,
                            !.warnings = Append(@, <<MsgFailedRename, old_name>>)]
            ELSE IF res.success
            THEN [st EXCEPT !.calls = called, !.reg = Append(st.reg, res.reg[i]),
                            !.renamed = Append(@, <<old_name, new_name>>)]
            ELSE [st EXCEPT !.calls = called]
    IN  CHOOSE s \in {Outcome(res) : res \in {rename_asset(st.reg, i, new_name)}} :
            TRUE

\* one iteration of the loop of auto_fix_naming on asset_data, the i-th
\* element of the list get_all_assets returned
FixRename(st, old_name, new_name, i) ==
    LET called == Append(st.calls, <<CallRename, i, new_name>>)
        Outcome(res) ==
            IF res.raised
            THEN [st EXCEPT !.calls = called,
                            !.warnings = Append(@, <<MsgFailedRename, old_name>>)]
            ELSE IF res.success
            THEN [st EXCEPT !.calls = called, !.reg = res.reg,
                            !.renamed = Append(@, <<old_name, new_name>>)]
            ELSE [st EXCEPT !.calls = called]
    IN  CHOOSE s \in {Outcome(res) : res \in {rename_asset(st.reg, i, new_name)}} :
            TRUE

\* FixStep without the test of line 208: the prefix is not looked for
FixStepNoSkip(st, asset_data, i) ==
    LET old_name == asset_data.asset_name
        asset_class == asset_data.asset_class
    IN  IF ~is_under_game(asset_data) THEN st
        ELSE CHOOSE s \in {FixRename(st, old_name, new_name, i) :
                              new_name \in {CanonicalName(old_name, asset_class)}} :
                 TRUE

\* FixStep that does not classify the asset itself: it renames the assets
\* the last audit listed with a naming issue
FixStepFromReport(st, asset_data, i) ==
    LET old_name == asset_data.asset_name
        asset_class == asset_data.asset_class
        listed == {out.naming[k][1] : k \in 1..Len(out.naming)}
    IN  IF ~is_under_game(asset_data) THEN st
        ELSE IF build_object_path(asset_data) \notin listed THEN st
        ELSE CHOOSE s \in {FixRename(st, old_name, new_name, i) :
                              new_name \in {CanonicalName(old_name, asset_class)}} :
                 TRUE

FixStep(st, asset_data, i) ==
    LET old_name == asset_data.asset_name
        asset_class == asset_data.asset_class
    IN  IF ~is_under_game(asset_data) THEN st
        ELSE IF ~NeedsRename(old_name, asset_class) THEN st
        ELSE CHOOSE s \in {FixRename(st, old_name, new_name, i) :
                              new_name \in {CanonicalName(old_name, asset_class)}} :
                 TRUE

RECURSIVE FixLoop(_, _, _)
FixLoop(st, assets, i) ==
    IF i > Len(assets) THEN st
    ELSE CHOOSE end \in {FixLoop(s, assets, i + 1) :
                             s \in {FixStep(st, assets[i], i)}} : TRUE

auto_fix_naming(r) ==
    FixLoop([reg |-> r, renamed |-> <<>>, warnings |-> <<>>, calls |-> <<>>],
            r, 1)

---------------------------------------------------------------------------
(* AuditLogController: the handlers of the four buttons *)

\* what a handler produced; out is the last handler's, prev the one before
NoOutput ==
    [op |-> "none", raised |-> FALSE,
     missing |-> <<>>, naming |-> <<>>, nanite |-> <<>>, unused |-> <<>>,
     total |-> 0, count |-> 0, renamed |-> <<>>,
     warnings |-> <<>>, calls |-> <<>>]

OpAudit == "on_audit"
OpEnableNanite == "on_enable_nanite"
OpFindUnused == "on_find_unused"
OpFixNames == "on_fix_names"
OpExternal == "external"

\* what is remembered of the handler before the last one: which it was, how
\* many assets it changed and how many write calls it issued
Summary(o) ==
    [op |-> o.op, changed |-> o.count + Len(o.renamed), calls |-> Len(o.calls)]

\* the report of on_audit from what the three scan functions returned: an
\* exception of a scan function leaves the handler after the lists shown so far
ReportOf(missing, nn, un) ==
        IF nn.raised
        THEN [NoOutput EXCEPT !.op = OpAudit, !.raised = TRUE,
                              !.missing = missing]
        ELSE IF un.raised
        THEN [NoOutput EXCEPT !.op = OpAudit, !.raised = TRUE,
                              !.missing = missing,
                              !.naming = nn.naming_issues,
                              !.nanite = nn.nanite_issues]
        ELSE [NoOutput EXCEPT !.op = OpAudit,
                              !.missing = missing,
                              !.naming = nn.naming_issues,
                              !.nanite = nn.nanite_issues,
                              !.unused = un.unused,
                              !.total = Len(missing) + Len(nn.naming_issues)
                                        + Len(nn.nanite_issues) + Len(un.unused)]

AuditReport(r) ==
    CHOOSE rep \in {ReportOf(missing, nn, un) :
                        missing \in {find_missing_or_broken_assets(r)},
                        nn \in {audit_naming_and_nanite(r)},
                        un \in {find_unused_assets(r)}} : TRUE

\* on_audit whose list of naming issues is not emptied between two runs
on_audit_keeping ==
    /\ out' = [AuditReport(reg) EXCEPT !.naming = out.naming \o @]
    /\ prev' = Summary(out)
    /\ UNCHANGED <<reg, level, tool>>

\* on_audit that enables Nanite on the meshes it reports
on_audit_fixing ==
    \E st \in {enable_nanite_for_all_flagged(reg)} :
    /\ out' = [AuditReport(reg) EXCEPT !.calls = st.calls]
    /\ reg' = st.reg
    /\ prev' = Summary(out)
    /\ UNCHANGED <<level, tool>>

on_audit ==
    /\ out' = AuditReport(reg)
    /\ prev' = Summary(out)
    /\ UNCHANGED <<reg, level, tool>>

on_enable_nanite ==
    \E st \in {enable_nanite_for_all_flagged(reg)} :
    /\ reg' = st.reg
    /\ out' = [NoOutput EXCEPT !.op = OpEnableNanite, !.count = st.changed,
                               !.calls = st.calls]
    /\ prev' = Summary(out)
    /\ UNCHANGED <<level, tool>>

on_find_unused ==
    \E un \in {find_unused_assets(reg)} :
    /\ out' = [NoOutput EXCEPT !.op = OpFindUnused, !.raised = un.raised,
                               !.unused = un.unused]
    /\ prev' = Summary(out)
    /\ UNCHANGED <<reg, level, tool>>

on_fix_names ==
    \E st \in {auto_fix_naming(reg)} :
    /\ reg' = st.reg
    /\ out' = [NoOutput EXCEPT !.op = OpFixNames, !.renamed = st.renamed,
                               !.warnings = st.warnings, !.calls = st.calls]
    /\ prev' = Summary(out)
    /\ UNCHANGED <<level, tool>>

\* between two handlers the environment repairs what made an adapter call
\* fail for one asset (a transient failure ends)
ExternalChange ==
    \E i \in 1..Len(reg) :
        /\ reg[i].fault # NoFault
        /\ reg' = [reg EXCEPT ![i].fault = NoFault]
        /\ out' = [NoOutput EXCEPT !.op = OpExternal]
        /\ prev' = Summary(out)
        /\ UNCHANGED <<level, tool>>
    
Next ==
    \/ on_audit
    \/ on_enable_nanite
    \/ on_find_unused
    \/ on_fix_names
    \/ ExternalChange

---------------------------------------------------------------------------
(* WorldTools of world_tools_main.py: the visibility tools                 *)

\* level: the level open in the editor
\*   hidden    : actor -> is temporarily hidden in the editor
\*   materials : actor -> the materials of its StaticMeshComponent, by slot
\*   selected  : the actors selected in the editor
\* tool: the fields of the WorldTools object
\*   hidden_actors, ghosted_actors : lists of actors
\*   original_materials            : dict from actor to a list of materials

\* get_all_level_actors(), in its order
Actors == 1..NumActors

\* actor.get_component_by_class(StaticMeshComponent) returns a component:
\* every actor but the last has one
HasStaticMesh(a) == a < NumActors

\* the wireframe material load_asset returns
GhostMaterial == <<"WireframeMaterial">>

\* the material the level designer gave slot n of actor a
OwnMaterial(a, n) == <<"Material", a, n>>

OpenedLevel ==
    [hidden |-> [a \in Actors |-> FALSE],
     materials |-> [a \in Actors |->
                       IF HasStaticMesh(a)
                       THEN <<OwnMaterial(a, 1), OwnMaterial(a, 2)>> ELSE <<>>],
     selected |-> {}]

\* __init__
NewWorldTools ==
    [hidden_actors |-> <<>>, ghosted_actors |-> <<>>,
     original_materials |-> <<>>]

OpIsolate == "isolate_selected"
OpRestore == "restore_visibility"
OpGhost == "enable_ghost_mode"
OpNormal == "disable_ghost_mode"
OpSelect == "select"

\* the actors of all_actors that are not in selected, in order
RECURSIVE NotSelected(_, _)
NotSelected(a, selected) ==
    IF a > NumActors THEN <<>>
    ELSE IF a \in selected THEN NotSelected(a + 1, selected)
    ELSE <<a>> \o NotSelected(a + 1, selected)

isolate_selected ==
    LET selected == level.selected
        others == NotSelected(1, selected)
    IN  /\ IF selected = {}
           THEN /\ tool' = [tool EXCEPT !.hidden_actors = <<>>]
                /\ UNCHANGED level
           ELSE /\ level' = [level EXCEPT !.hidden =
                                [a \in Actors |-> @[a] \/ a \notin selected]]
                /\ tool' = [tool EXCEPT !.hidden_actors = others]
        /\ out' = [NoOutput EXCEPT !.op = OpIsolate]
        /\ prev' = Summary(out)
        /\ UNCHANGED reg

restore_visibility ==
    /\ level' = [level EXCEPT !.hidden =
                    [a \in Actors |-> @[a] /\ a \notin Range(tool.hidden_actors)]]
    /\ tool' = [tool EXCEPT !.hidden_actors = <<>>]
    /\ out' = [NoOutput EXCEPT !.op = OpRestore,
                               !.count = Len(tool.hidden_actors)]
    /\ prev' = Summary(out)
    /\ UNCHANGED reg

\* loaded: whether load_asset returned the wireframe material
enable_ghost_mode ==
    \E loaded \in BOOLEAN :
        LET selected == level.selected
            ghosted == SelectSeq(NotSelected(1, selected), HasStaticMesh)
        IN  /\ IF ~loaded
               THEN UNCHANGED <<level, tool>>
               ELSE /\ tool' = [tool EXCEPT
                                   !.ghosted_actors = ghosted,
                                   !.original_materials =
                                       [a \in Range(ghosted) |-> level.materials[a]]]
                    /\ level' = [level EXCEPT !.materials =
                                    [a \in Actors |->
                                        IF a \in Range(ghosted)
                                        THEN [@[a] EXCEPT ![1] = GhostMaterial]
                                        ELSE @[a]]]
            /\ out' = [NoOutput EXCEPT !.op = OpGhost]
            /\ prev' = Summary(out)
            /\ UNCHANGED reg

disable_ghost_mode ==
    /\ level' = [level EXCEPT !.materials =
                    [a \in Actors |->
                        IF a \in DOMAIN tool.original_materials
                        THEN tool.original_materials[a] ELSE @[a]]]
    /\ tool' = [tool EXCEPT !.original_materials = <<>>,
                            !.ghosted_actors = <<>>]
    /\ out' = [NoOutput EXCEPT !.op = OpNormal,
                               !.count = Cardinality(DOMAIN tool.original_materials)]
    /\ prev' = Summary(out)
    /\ UNCHANGED reg

\* the user selects other actors in the editor
SelectActors ==
    \E selected \in SUBSET Actors :
        /\ selected # level.selected
        /\ level' = [level EXCEPT !.selected = selected]
        /\ out' = [NoOutput EXCEPT !.op = OpSelect]
        /\ prev' = Summary(out)
        /\ UNCHANGED <<reg, tool>>

NextWorld ==
    \/ isolate_selected
    \/ restore_visibility
    \/ enable_ghost_mode
    \/ disable_ghost_mode
    \/ SelectActors

---------------------------------------------------------------------------
(* Registries the handlers start from *)

Slots == 1..NumRecords

PathGameA == <<"/","G","a","m","e","/","A">>

ClsStaticMesh == StrStaticMesh
ClsTexture2D == <<"T","e","x","t","u","r","e","2","D">>

NameCrateLower == <<"c","r","a","t","e","_","0","1">>
NameCrateSpace == <<"c","r","a","t","e"," ","0","1">>
NameCrateFixed == <<"S","M","_","C","r","a","t","e","_","0","1">>
NameNewRock == <<"N","e","w","-","R","o","c","k">>

\* an asset's identity, package path and short name, is unique
UniqueIdentity(r) ==
    \A i, j \in 1..Len(r) :
        (i # j) => \/ r[i].package_path # r[j].package_path
                   \/ r[i].asset_name # r[j].asset_name

FaultCount(r) == Cardinality({i \in 1..Len(r) : r[i].fault # NoFault})

\* the name of the asset in slot i of a registry whose names are fixed
DigitSeq == <<"1","2","3","4","5","6","7","8","9">>
SlotName(i) == <<"S","M","_","M","e","s","h">> \o <<DigitSeq[i]>>

Asset(path, name, class, nanite, refs, fault) ==
    [package_path |-> path, asset_name |-> name, asset_class |-> class,
     nanite |-> nanite, saved |-> TRUE, referencers |-> refs, fault |-> fault]

NamedKinds ==
    {<<NameCrateLower, ClsStaticMesh>>, <<NameCrateSpace, ClsStaticMesh>>,
     <<NameCrateFixed, ClsTexture2D>>, <<NameCrateFixed, ClsStaticMesh>>,
     <<NameNewRock, ClsTexture2D>>}

NamingAssets ==
    {Asset(PathGameA, k[1], k[2], FALSE, {}, f) :
        k \in NamedKinds, f \in {NoFault, RenameFalse, RenameRaise}}

\* registries that differ in names, classes and rename faults; a fault is
\* given only to an asset for which the failing call is made
NamingRegistries ==
    {r \in [Slots -> NamingAssets] :
        /\ UniqueIdentity(r)
        /\ FaultCount(r) <= MaxFaults
        /\ \A i \in Slots :
              r[i].fault # NoFault => NeedsRename(r[i].asset_name, r[i].asset_class)}

FeatureFaultsOf(class, nanite) ==
    IF class # ClsStaticMesh THEN {LoadFault}
    ELSE IF nanite THEN {LoadFault, ReadFault}
    ELSE {LoadFault, ReadFault, SetFault, SaveFalse, SaveRaise}

\* the feature-relevant kinds of asset: class, nanite flag and fault
FeatureKinds ==
    {<<c, n, f>> \in {ClsStaticMesh, ClsTexture2D} \X BOOLEAN
                     \X {NoFault, LoadFault, ReadFault, SetFault, SaveFalse, SaveRaise} :
        /\ c # ClsStaticMesh => ~n
        /\ f # NoFault => f \in FeatureFaultsOf(c, n)}

\* registries that differ in classes, nanite flags and feature faults
FeatureRegistries ==
    {r \in {[i \in Slots |-> Asset(PathGameA, SlotName(i), k[i][1], k[i][2], {}, k[i][3])] :
               k \in [Slots -> FeatureKinds]} :
        FaultCount(r) <= MaxFaults}

\* the packages that refer to an asset, as the referencer lookup names them
RefLevel == <<"/","G","a","m","e","/","M","a","p","s","/","L","e","v","e","l">>

\* the package of the asset in slot j
SlotPackage(j) == PathGameA \o <<"/">> \o SlotName(j)

\* registries that differ in referencers (none, a level, the next asset of
\* the registry) and in referencer-lookup faults
UsageKinds(i) ==
    {{}, {RefLevel}, {SlotPackage((i % NumRecords) + 1)}} \X {NoFault, RefsRaise}

UsageRegistries ==
    {r \in {[i \in Slots |-> Asset(PathGameA, SlotName(i), ClsStaticMesh, TRUE,
                                   k[i][1], k[i][2])] :
               k \in [Slots -> UNION {UsageKinds(i) : i \in Slots}]} :
        /\ \A i \in Slots : <<r[i].referencers, r[i].fault>> \in UsageKinds(i)
        /\ FaultCount(r) <= MaxFaults}

\* names that the rules of bad_name tell apart: a space and a lower-case
\* first letter, a placeholder token, a tab after a lower-case and after an
\* upper-case first letter, the empty name; and a name with leading,
\* doubled and trailing separators
Tab == "\t"
NameNewAsset == <<"n","e","w"," ","a","s","s","e","t">>
NameNewthing == <<"N","e","w","t","h","i","n","g">>
NameCrateTabLower == <<"c","r","a","t","e",Tab,"0","1">>
NameCrateTab == <<"C","r","a","t","e",Tab,"0","1">>
NameEmpty == <<>>
NameRockDashes == <<"_","r","o","c","k","-","-","0","1","_">>

ValidatorNames ==
    {NameNewAsset, NameNewthing, NameCrateTabLower, NameCrateTab, NameEmpty,
     NameRockDashes, NameCrateFixed}

\* registries of meshes that differ in names; rename_asset may raise for one
\* of the first assets
NamesRegistries ==
    {r \in {[i \in Slots |-> Asset(PathGameA, n[i], ClsStaticMesh, TRUE, {RefLevel},
                                   IF i \in f THEN RenameRaise ELSE NoFault)] :
               n \in [Slots -> ValidatorNames], f \in SUBSET (1..MaxFaults)} :
        /\ UniqueIdentity(r)
        /\ \A i \in Slots :
              r[i].fault # NoFault => NeedsRename(r[i].asset_name, r[i].asset_class)}

\* class names: one per rule of get_prefix_for_class, one that no rule
\* matches and one that holds the patterns of two rules
ClsMaterialInstanceConstant == StrMaterialInstance \o <<"C","o","n","s","t","a","n","t">>
ClsMaterial == StrMaterial
ClsBlueprint == StrBlueprint
ClsSoundWave == StrSound \o <<"W","a","v","e">>
ClsDataAsset == <<"D","a","t","a","A","s","s","e","t">>
ClsStaticMeshMaterialInstance == StrStaticMesh \o StrMaterialInstance

ClassSeq ==
    <<ClsStaticMesh, ClsMaterialInstanceConstant, ClsMaterial, ClsTexture2D,
      ClsBlueprint, ClsSoundWave, ClsDataAsset, ClsStaticMeshMaterialInstance>>

\* the name of the asset in slot i of a registry whose names carry no prefix
PlainName(i) == <<"R","o","c","k">> \o <<DigitSeq[i]>>

\* registries whose assets have consecutive classes of ClassSeq, starting
\* anywhere; rename_asset may raise for one of the first assets
ClassRegistries ==
    {[i \in Slots |-> Asset(PathGameA, PlainName(i),
                            ClassSeq[((k + i) % Len(ClassSeq)) + 1],
                            FALSE, {RefLevel},
                            IF i \in f THEN RenameRaise ELSE NoFault)] :
        k \in 1..Len(ClassSeq), f \in SUBSET (1..MaxFaults)}

\* names that the naming check and the prefix test of auto_fix_naming judge
\* differently: a name with the prefix and a space, a name without prefix
\* that passes the check, a name of separators only
NamePrefixedSpace == <<"S","M","_","c","r","a","t","e"," ","0","1">>
NameRock == <<"R","o","c","k">>
NameSeparators == <<"-","_","-">>

RemedyNames ==
    {NamePrefixedSpace, NameRock, NameSeparators, NameCrateLower, NameCrateSpace,
     NameCrateFixed}

\* registries of meshes that differ in these names; rename_asset may return
\* False for one of the first assets
RemedyRegistries ==
    {r \in {[i \in Slots |-> Asset(PathGameA, n[i], ClsStaticMesh, TRUE, {RefLevel},
                                   IF i \in f THEN RenameFalse ELSE NoFault)] :
               n \in [Slots -> RemedyNames], f \in SUBSET (1..MaxFaults)} :
        /\ UniqueIdentity(r)
        /\ \A i \in Slots :
              r[i].fault # NoFault => NeedsRename(r[i].asset_name, r[i].asset_class)}

\* package paths under /Game, under a folder whose name begins with "Game",
\* and under the engine's content
PathGameFeaturesA == <<"/","G","a","m","e","F","e","a","t","u","r","e","s","/","A">>
PathEngineA == <<"/","E","n","g","i","n","e","/","A">>

ScopePaths == {PathGameA, PathGameFeaturesA, PathEngineA}

\* the name of the asset in slot i of a registry whose names are flagged
LowerName(i) == <<"r","o","c","k">> \o <<DigitSeq[i]>>

\* registries of unreferenced meshes with Nanite off that differ in package
\* paths; rename_asset may return False for one of the first assets
ScopeRegistries ==
    {[i \in Slots |-> Asset(q[i], LowerName(i), ClsStaticMesh, FALSE, {},
                            IF i \in f THEN RenameFalse ELSE NoFault)] :
        q \in [Slots -> ScopePaths], f \in SUBSET (1..MaxFaults)}

InitWith(registries) ==
    /\ reg \in registries
    /\ out = NoOutput
    /\ prev = Summary(NoOutput)
    /\ level = OpenedLevel
    /\ tool = NewWorldTools

Init == InitWith(NamingRegistries)

InitFeature == InitWith(FeatureRegistries)

InitUsage == InitWith(UsageRegistries)

InitNames == InitWith(NamesRegistries)

InitClasses == InitWith(ClassRegistries)

InitRemedy == InitWith(RemedyRegistries)

InitScope == InitWith(ScopeRegistries)

\* the tool opened on a level, with no asset registry in play
InitWorld == InitWith({<<>>})

Spec == Init /\ [][Next]_vars

SpecFeature == InitFeature /\ [][Next]_vars

SpecUsage == InitUsage /\ [][Next]_vars

SpecNames == InitNames /\ [][Next]_vars

SpecClasses == InitClasses /\ [][Next]_vars

SpecRemedy == InitRemedy /\ [][Next]_vars

SpecScope == InitScope /\ [][Next]_vars

SpecWorld == InitWorld /\ [][NextWorld]_vars

---------------------------------------------------------------------------
(* Claims *)

C2_SecondCountZero ==
    (out.op = OpEnableNanite /\ prev.op = OpEnableNanite) => out.count = 0

\* a second run directly after a run that enabled Nanite on some mesh
C2_Witness ==
    /\ out.op = OpEnableNanite
    /\ prev.op = OpEnableNanite
    /\ prev.changed > 0
    /\ out.count = 0

\* asset i of registry r is one auto_fix_naming computes a new name for
Planned(r, i) ==
    /\ is_under_game(r[i])
    /\ NeedsRename(r[i].asset_name, r[i].asset_class)

\* the new name auto_fix_naming computes for asset i of registry r
Target(r, i) == CanonicalName(r[i].asset_name, r[i].asset_class)

\* the positions of the assets for which calls holds a rename_asset call
RenameCalled(calls) ==
    {calls[k][2] : k \in {n \in 1..Len(calls) : calls[n][1] = CallRename}}

\* C3, as stated: when two assets of one package path get the same new name
\* in one run of on_fix_names, no rename_asset call is issued for either and
\* neither is renamed.
C3_CollidingPlansBothRejected ==
    [][out'.op = OpFixNames =>
          \A i, j \in 1..Len(reg) :
              ( /\ i # j
                /\ Planned(reg, i) /\ Planned(reg, j)
                /\ reg[i].package_path = reg[j].package_path
                /\ Target(reg, i) = Target(reg, j) )
              => /\ reg'[i].asset_name = reg[i].asset_name
                 /\ reg'[j].asset_name = reg[j].asset_name
                 /\ {i, j} \cap RenameCalled(out'.calls) = {}]_vars

\* C4, as stated: when the new name computed for an asset already belongs to
\* another asset of the same package path, on_fix_names issues no
\* rename_asset call for that asset and leaves it unchanged.
C4_ExistingNameRejectedBeforeCall ==
    [][out'.op = OpFixNames =>
          \A i \in 1..Len(reg) :
              (Planned(reg, i) /\ DestinationExists(reg, i, Target(reg, i)))
              => /\ i \notin RenameCalled(out'.calls)
                 /\ reg'[i] = reg[i]]_vars

\* the assets whose rename_asset call of the last on_fix_names failed: the
\* call was issued and the asset does not carry the new name
FailedRenames ==
    {k \in 1..Len(out.calls) :
        /\ out.calls[k][1] = CallRename
        /\ reg[out.calls[k][2]].asset_name # out.calls[k][3]}

\* C5, as stated: an asset whose rename_asset call failed, by returning
\* False or by raising, is not in the returned list and its failure is
\* logged; the other assets of the run are still renamed.
C5_EveryFailureLogged ==
    out.op = OpFixNames =>
        \A k \in FailedRenames :
            LET old_name == reg[out.calls[k][2]].asset_name IN
            /\ \A n \in 1..Len(out.renamed) : out.renamed[n][1] # old_name
            /\ \E n \in 1..Len(out.warnings) :
                   out.warnings[n] = <<MsgFailedRename, old_name>>

NameSMCrate01 == <<"S","M","_","C","r","a","t","e","_","0","1">>

\* the characters of s that are letters or digits, in order
RECURSIVE AlphaNum(_)
AlphaNum(s) ==
    IF s = <<>> THEN <<>>
    ELSE IF Head(s) \in UpperSet \cup LowerSet \cup Digits
         THEN <<Head(s)>> \o AlphaNum(Tail(s))
    ELSE AlphaNum(Tail(s))

LowerAll(s) == [k \in 1..Len(s) |-> Lower(s[k])]

\* new is prefix followed by capitalized words joined by single underscores,
\* and holds the letters and digits of old, in order
PrefixedCapitalizedWords(new, prefix, old) ==
    /\ StartsWith(new, prefix)
    /\ LET rest == SubSeq(new, Len(prefix) + 1, Len(new))
           words == Split(rest, Underscore)
       IN  /\ rest # <<>> => \A k \in 1..Len(words) :
                  /\ words[k] # <<>>
                  /\ words[k][1] \notin LowerSet
                  /\ \A n \in 2..Len(words[k]) : words[k][n] \notin UpperSet
           /\ LowerAll(AlphaNum(rest)) = LowerAll(AlphaNum(old))

\* C7: the audit reports the StaticMesh "crate_01" with the reason 'Starts
\* lowercase' and on_fix_names asks to rename it to "SM_Crate_01"; a
\* StaticMesh already named "SM_Crate_01" gets no naming issue and no rename;
\* every new name is the prefix of the class followed by the
\* underscore-joined capitalized words of the old name.
C7_NamingCorrectness ==
    [][ /\ out'.op = OpAudit =>
              \A i \in 1..Len(reg) :
                  LET a == reg[i]
                      Issues == {out'.naming[k] : k \in 1..Len(out'.naming)}
                  IN  /\ (a.asset_class = StrStaticMesh /\ a.asset_name = NameCrateLower)
                          => <<build_object_path(a), MsgNaming, StartsLowercase>> \in Issues
                      /\ (a.asset_class = StrStaticMesh /\ a.asset_name = NameSMCrate01)
                          => \A x \in Issues : x[1] # build_object_path(a)
        /\ out'.op = OpFixNames =>
              /\ \A i \in 1..Len(reg) :
                  LET a == reg[i] IN
                  /\ (a.asset_class = StrStaticMesh /\ a.asset_name = NameCrateLower)
                      => /\ <<CallRename, i, NameSMCrate01>> \in Range(out'.calls)
                         /\ reg'[i].asset_name \in {NameCrateLower, NameSMCrate01}
                         /\ reg'[i].asset_name = NameSMCrate01
                              <=> <<NameCrateLower, NameSMCrate01>> \in Range(out'.renamed)
                  /\ (a.asset_class = StrStaticMesh /\ a.asset_name = NameSMCrate01)
                      => /\ i \notin RenameCalled(out'.calls)
                         /\ reg'[i] = a
              /\ \A k \in 1..Len(out'.calls) :
                  LET a == reg[out'.calls[k][2]] IN
                  PrefixedCapitalizedWords(out'.calls[k][3],
                                           get_prefix_for_class(a.asset_class),
                                           a.asset_name)
      ]_vars

\* the StaticMesh "crate_01" has been renamed to "SM_Crate_01"
C7_Witness ==
    /\ out.op = OpFixNames
    /\ <<NameCrateLower, NameSMCrate01>> \in Range(out.renamed)
    /\ \E i \in 1..Len(reg) :
          reg[i].asset_class = StrStaticMesh /\ reg[i].asset_name = NameSMCrate01

\* the entries of a list of issues that name the object path of asset a
IssuesOf(a, issues) ==
    {k \in 1..Len(issues) : issues[k][1] = build_object_path(a)}

\* C8: for every StaticMesh under /Game that loads and whose nanite
\* settings cannot be read, the audit reports exactly one 'Nanite DISABLED'
\* issue.
C8_UnreadableFlagIsFlagged ==
    (out.op = OpAudit /\ ~out.raised) =>
        \A i \in 1..Len(reg) :
            ( /\ is_under_game(reg[i])
              /\ reg[i].asset_class = StrStaticMesh
              /\ reg[i].fault = ReadFault )
            => /\ Cardinality(IssuesOf(reg[i], out.nanite)) = 1
               /\ \A k \in IssuesOf(reg[i], out.nanite) : out.nanite[k][2] = MsgNanite

\* an audit of a registry with a mesh whose flag is on and cannot be read
C8_Witness ==
    /\ out.op = OpAudit
    /\ \E i \in 1..Len(reg) :
          /\ reg[i].asset_class = StrStaticMesh
          /\ reg[i].fault = ReadFault
          /\ reg[i].nanite
          /\ IssuesOf(reg[i], out.nanite) # {}

\* the position in registry r of the asset an issue names
AssetOf(r, issue) ==
    CHOOSE i \in 1..Len(r) : build_object_path(r[i]) = issue[1]

\* C9: find_unused_assets reports an asset if and only if its referencer
\* lookup returns nothing, once per such asset and in the order of the
\* registry's enumeration.
C9_UnusedIffNoReferencers ==
    (out.op \in {OpFindUnused, OpAudit} /\ ~out.raised) =>
        /\ \A i \in 1..Len(reg) :
              Cardinality(IssuesOf(reg[i], out.unused))
                  = IF is_under_game(reg[i]) /\ reg[i].referencers = {} THEN 1 ELSE 0
        /\ \A k \in 1..Len(out.unused) :
              /\ out.unused[k][2] = MsgUnused
              /\ \E i \in 1..Len(reg) : build_object_path(reg[i]) = out.unused[k][1]
        /\ \A k, n \in 1..Len(out.unused) :
              k < n => AssetOf(reg, out.unused[k]) < AssetOf(reg, out.unused[n])

\* only the second asset refers to the first, nothing refers to the second
\* and the third: the second and the third are reported, in this order
C9_Witness ==
    /\ out.op = OpFindUnused
    /\ Len(reg) >= 3
    /\ reg[1].referencers = {PackageName(reg[2])}
    /\ reg[2].referencers = {}
    /\ reg[3].referencers = {}
    /\ SubSeq(out.unused, 1, 2) = << <<build_object_path(reg[2]), MsgUnused>>,
                                     <<build_object_path(reg[3]), MsgUnused>> >>

\* the names and the nanite flags of the assets of registry r
NamesAndFlags(r) == [i \in 1..Len(r) |-> <<r[i].asset_name, r[i].nanite>>]

\* C10: on_audit and on_find_unused issue no rename, set or save call and
\* leave every name and flag as it was; such calls and changes occur only
\* in on_fix_names and on_enable_nanite.
C10_AuditReadOnly ==
    [][ /\ out'.op \in {OpAudit, OpFindUnused} =>
              (out'.calls = <<>> /\ NamesAndFlags(reg') = NamesAndFlags(reg))
        /\ out'.calls # <<>> => out'.op \in {OpFixNames, OpEnableNanite}
        /\ NamesAndFlags(reg') # NamesAndFlags(reg)
              => out'.op \in {OpFixNames, OpEnableNanite}
      ]_vars

\* an audit that has reported naming and nanite issues and changed nothing:
\* the assets it names still carry the reported names and flags
C10_Witness ==
    /\ out.op = OpAudit
    /\ out.naming # <<>>
    /\ out.nanite # <<>>
    /\ \A k \in 1..Len(out.nanite) :
          \E i \in 1..Len(reg) :
              build_object_path(reg[i]) = out.nanite[k][1] /\ ~reg[i].nanite

\* the kinds of write call found in a list of calls
CallKinds(calls) == {calls[k][1] : k \in 1..Len(calls)}

\* C11: no handler creates or deletes an asset: in every step the registry
\* keeps its length, every asset keeps its package path and class and either
\* keeps its name or carries the new name an entry of the returned list gives
\* it; distinct assets stay distinct; the only write calls are rename, set
\* and save calls.
C11_RecordSetPreserved ==
    [][ /\ Len(reg') = Len(reg)
        /\ UniqueIdentity(reg')
        /\ \A i \in 1..Len(reg) :
              /\ reg'[i].package_path = reg[i].package_path
              /\ reg'[i].asset_class = reg[i].asset_class
              /\ \/ reg'[i].asset_name = reg[i].asset_name
                 \/ <<reg[i].asset_name, reg'[i].asset_name>> \in Range(out'.renamed)
        /\ CallKinds(out'.calls) \subseteq {CallRename, CallSetFlag, CallPersist}
      ]_vars

\* assets have been renamed after Nanite was enabled on meshes, and the
\* registry still enumerates as many assets as at the start
C11_Witness ==
    /\ out.op = OpFixNames
    /\ out.renamed # <<>>
    /\ prev.op = OpEnableNanite
    /\ prev.changed > 0
    /\ Len(reg) = NumRecords

\* the positions of the assets for which calls holds a set_editor_property
\* call
SetFlagCalled(calls) ==
    {calls[k][2] : k \in {n \in 1..Len(calls) : calls[n][1] = CallSetFlag}}

\* the meshes of registry r whose flag enable_nanite_for_all_flagged reads
\* as disabled
ReadsDisabled(r) ==
    {i \in 1..Len(r) :
        /\ is_under_game(r[i])
        /\ is_static_mesh_asset(r[i])
        /\ load_asset_safe(r[i])
        /\ r[i].fault # ReadFault
        /\ ~r[i].nanite}

C13_LoadShortCircuit ==
    (out.op = OpAudit /\ ~out.raised) =>
        \A i \in 1..Len(reg) :
            is_under_game(reg[i]) =>
                IF reg[i].fault = LoadFault
                THEN /\ Cardinality(IssuesOf(reg[i], out.missing)) = 1
                     /\ \A k \in IssuesOf(reg[i], out.missing) :
                            out.missing[k][2] = MsgLoadFailed
                     /\ IssuesOf(reg[i], out.nanite) = {}
                ELSE /\ IssuesOf(reg[i], out.missing) = {}
                     /\ (reg[i].asset_class = StrStaticMesh /\ ~reg[i].nanite)
                            => IssuesOf(reg[i], out.nanite) # {}

\* an audit of a registry in which a mesh with the flag off fails to load
\* and a later mesh with the flag off loads: the first is listed as failed
\* to load, the second as Nanite disabled
C13_Witness ==
    /\ out.op = OpAudit
    /\ \E i, j \in 1..Len(reg) :
          /\ i < j
          /\ reg[i].asset_class = StrStaticMesh /\ reg[j].asset_class = StrStaticMesh
          /\ ~reg[i].nanite /\ ~reg[j].nanite
          /\ reg[i].fault = LoadFault /\ reg[j].fault = NoFault
          /\ IssuesOf(reg[i], out.missing) # {}
          /\ IssuesOf(reg[i], out.nanite) = {}
          /\ IssuesOf(reg[j], out.nanite) # {}

\* the whitespace characters a name can hold
Whitespace == {Space, Tab, "\n"}

\* the rules of the naming check that a name matches
MatchesWhitespace(name) == Range(name) \cap Whitespace # {}
MatchesPlaceholder(name) == StartsWith(name, StrNew) \/ StartsWith(name, StrUntitled)
MatchesLowercase(name) == name # <<>> /\ name[1] \in LowerSet

RulesMatched(name) ==
    {x \in {ContainsSpaces, TempPlaceholder, StartsLowercase} :
        \/ x = ContainsSpaces /\ MatchesWhitespace(name)
        \/ x = TempPlaceholder /\ MatchesPlaceholder(name)
        \/ x = StartsLowercase /\ MatchesLowercase(name)}

\* the first rule a name matches in the order whitespace, placeholder,
\* lower-case
FirstRuleMatched(name) ==
    IF MatchesWhitespace(name) THEN ContainsSpaces
    ELSE IF MatchesPlaceholder(name) THEN TempPlaceholder
    ELSE StartsLowercase

\* C14, as stated: a completed audit lists at most one naming issue per
\* asset, and for a name that matches several of the rules (a) contains
\* whitespace, (b) begins with 'New' or 'Untitled', (c) first character
\* lower-case, the reason listed is that of the first rule matched in this
\* order.
C14_FirstMatchingReason ==
    (out.op = OpAudit /\ ~out.raised) =>
        \A i \in 1..Len(reg) :
            /\ Cardinality(IssuesOf(reg[i], out.naming)) <= 1
            /\ Cardinality(RulesMatched(reg[i].asset_name)) > 1
                  => \E k \in IssuesOf(reg[i], out.naming) :
                         out.naming[k][3] = FirstRuleMatched(reg[i].asset_name)

\* C15, as stated: a completed audit lists a naming issue for every asset
\* whose name contains a whitespace character, whatever its first character.
C15_WhitespaceIsViolation ==
    (out.op = OpAudit /\ ~out.raised) =>
        \A i \in 1..Len(reg) :
            MatchesWhitespace(reg[i].asset_name)
                => IssuesOf(reg[i], out.naming) # {}

\* C16, as stated: an audit of a registry that holds an asset with the empty
\* name completes, lists for that asset a naming issue whose reason is none
\* of the three normal reasons, and reports the other assets.
C16_EmptyNameHandled ==
    out.op = OpAudit =>
        \A i \in 1..Len(reg) :
            reg[i].asset_name = <<>>
                => /\ ~out.raised
                   /\ \E k \in IssuesOf(reg[i], out.naming) :
                          out.naming[k][3] \notin
                              {ContainsSpaces, TempPlaceholder, StartsLowercase, None}
                   /\ \A j \in 1..Len(reg) :
                          RulesMatched(reg[j].asset_name) # {}
                              => IssuesOf(reg[j], out.naming) # {}

\* C17, as stated: when the referencer lookup raises for one asset,
\* on_find_unused completes, lists no issue for that asset and lists every
\* other asset that has no referencers.
C17_LookupErrorTolerated ==
    out.op = OpFindUnused =>
        /\ ~out.raised
        /\ \A i \in 1..Len(reg) :
              IF reg[i].fault = RefsRaise
              THEN IssuesOf(reg[i], out.unused) = {}
              ELSE reg[i].referencers = {} => IssuesOf(reg[i], out.unused) # {}

\* C18, as stated: the count on_enable_nanite returns is the number of
\* meshes whose flag was off before the run and is on and saved after it.
C18_CountIsSetAndPersisted ==
    [][out'.op = OpEnableNanite =>
          out'.count = Cardinality({i \in 1..Len(reg) :
                                       /\ ~reg[i].nanite
                                       /\ reg'[i].nanite
                                       /\ reg'[i].saved})]_vars

\* C19: when on_fix_names runs directly after on_fix_names, the second run
\* issues one rename_asset call for each asset whose call of the first run
\* failed and no call for any other asset, so none for an asset the first
\* run renamed.
C19_RetryOnlyFailed ==
    [][(out.op = OpFixNames /\ out'.op = OpFixNames) =>
          /\ RenameCalled(out'.calls) = {out.calls[k][2] : k \in FailedRenames}
          /\ Len(out'.calls) = Cardinality(RenameCalled(out'.calls))]_vars

\* a second run directly after a run in which some renames succeeded and
\* some failed; the second run has issued calls
C19_Witness ==
    /\ out.op = OpFixNames
    /\ prev.op = OpFixNames
    /\ prev.changed > 0
    /\ prev.calls > prev.changed
    /\ out.calls # <<>>

\* the rules of the naming convention: a pattern looked for in the class
\* name and the prefix it gives
PrefixRules ==
    {<<StrStaticMesh, <<"S","M","_">> >>, <<StrMaterialInstance, <<"M","I","_">> >>,
     <<StrMaterial, <<"M","_">> >>, <<StrTexture, <<"T","_">> >>,
     <<StrBlueprint, <<"B","P","_">> >>, <<StrSound, <<"S","_">> >>}

RulesMatching(class) == {rule \in PrefixRules : Contains(class, rule[1])}

\* the prefix of the longest pattern found in the class name
LongestRulePrefix(class) ==
    (CHOOSE rule \in RulesMatching(class) :
        \A other \in RulesMatching(class) : Len(other[1]) <= Len(rule[1]))[2]

\* C20, as stated: every new name on_fix_names asks for starts with the
\* prefix of the longest rule pattern found in the asset's class name; for a
\* class name that holds "MaterialInstance" this is "MI_".
C20_LongestRuleWins ==
    [][out'.op = OpFixNames =>
          \A k \in 1..Len(out'.calls) :
              LET class == reg[out'.calls[k][2]].asset_class IN
              RulesMatching(class) # {}
                  => StartsWith(out'.calls[k][3], LongestRulePrefix(class))]_vars

\* the generic prefix
DefaultPrefix == <<"A","_">>

\* C21: for an asset whose class name holds none of the rule patterns,
\* on_fix_names uses the prefix "A_": it issues no call and changes nothing
\* if the name starts with "A_" already, and otherwise asks once for the
\* name "A_" followed by the cleaned old name; the asset carries that name
\* afterwards exactly when the pair is in the returned list.
C21_DefaultPrefix ==
    [][out'.op = OpFixNames =>
          \A i \in 1..Len(reg) :
              (is_under_game(reg[i]) /\ RulesMatching(reg[i].asset_class) = {}) =>
                  LET old == reg[i].asset_name
                      new == DefaultPrefix \o clean_asset_name(old)
                  IN  IF StartsWith(old, DefaultPrefix)
                      THEN /\ i \notin RenameCalled(out'.calls)
                           /\ reg'[i] = reg[i]
                      ELSE /\ <<CallRename, i, new>> \in Range(out'.calls)
                           /\ reg'[i].asset_name \in {old, new}
                           /\ reg'[i].asset_name = new
                                  <=> <<old, new>> \in Range(out'.renamed)]_vars

\* on_fix_names has run twice on a registry with an asset of a class no rule
\* matches: the first run gave it the prefix "A_", the second run left it
\* alone
C21_Witness ==
    /\ out.op = OpFixNames
    /\ prev.op = OpFixNames
    /\ prev.changed > 0
    /\ \E i \in 1..Len(reg) :
          /\ reg[i].asset_class = ClsDataAsset
          /\ reg[i].asset_name = DefaultPrefix \o PlainName(i)
          /\ i \notin RenameCalled(out.calls)

\* the maximal runs of letters and digits of a name, in order: its words
RECURSIVE WordsAcc(_, _)
WordsAcc(s, cur) ==
    IF s = <<>> THEN (IF cur = <<>> THEN <<>> ELSE <<cur>>)
    ELSE IF Head(s) \in UpperSet \cup LowerSet \cup Digits
         THEN WordsAcc(Tail(s), Append(cur, Head(s)))
    ELSE (IF cur = <<>> THEN <<>> ELSE <<cur>>) \o WordsAcc(Tail(s), <<>>)

WordsOf(name) == WordsAcc(name, <<>>)

\* a word with its first letter in upper case and its other letters in lower
\* case
TitleCased(w) == [k \in 1..Len(w) |-> IF k = 1 THEN Upper(w[k]) ELSE Lower(w[k])]

\* the words, title-cased and joined by single underscores
RECURSIVE JoinTitleCased(_)
JoinTitleCased(words) ==
    IF words = <<>> THEN <<>>
    ELSE IF Len(words) = 1 THEN TitleCased(words[1])
    ELSE TitleCased(words[1]) \o <<Underscore>> \o JoinTitleCased(Tail(words))

\* C22: every new name on_fix_names asks for is the prefix of the class
\* followed by the words of the old name, title-cased and joined by single
\* underscores, where a word is a maximal run of characters of [A-Za-z0-9]
\* (every other character separates words, and no empty word, doubled,
\* leading or trailing underscore follows the prefix); cleaning the part
\* after the prefix again returns it unchanged.
C22_CanonicalForm ==
    [][out'.op = OpFixNames =>
          \A k \in 1..Len(out'.calls) :
              LET a == reg[out'.calls[k][2]]
                  prefix == get_prefix_for_class(a.asset_class)
                  new == out'.calls[k][3]
                  rest == SubSeq(new, Len(prefix) + 1, Len(new))
              IN  /\ new = prefix \o JoinTitleCased(WordsOf(a.asset_name))
                  /\ clean_asset_name(rest) = rest]_vars

\* the name "_rock--01_" has been renamed to "SM_Rock_01"
C22_Witness ==
    /\ out.op = OpFixNames
    /\ <<NameRockDashes, <<"S","M","_","R","o","c","k","_","0","1">> >>
           \in Range(out.renamed)

\* the enumeration orders of n assets
Orders(n) == {p \in [1..n -> 1..n] : \A i, j \in 1..n : p[i] = p[j] => i = j}

\* registry r enumerated in the order p
Reordered(r, p) == [i \in 1..Len(r) |-> r[p[i]]]

\* C23, as stated: the report of a completed audit does not depend on the
\* order in which the registry enumerates its assets: the audit of the same
\* assets in any other order gives the same lists.
C23_ReportIndependentOfEnumeration ==
    (out.op = OpAudit /\ ~out.raised) =>
        \A p \in Orders(Len(reg)) : AuditReport(Reordered(reg, p)) = out

\* C24, as stated: when on_audit runs directly after an on_fix_names whose
\* rename_asset calls all succeeded, it lists no naming issue.
C24_AuditCleanAfterFix ==
    [][(out.op = OpFixNames /\ Len(out.calls) = Len(out.renamed)
            /\ out'.op = OpAudit)
          => (~out'.raised /\ out'.naming = <<>>)]_vars

\* C24, amended: when on_audit runs directly after an on_fix_names whose
\* rename_asset calls all succeeded, it completes the naming check and lists
\* no naming issue for an asset the fix renamed; every naming issue it lists
\* is for an asset whose name carries the prefix of its class, which the fix
\* skipped.
C24_AuditCleanForRenamed ==
    [][(out.op = OpFixNames /\ Len(out.calls) = Len(out.renamed)
            /\ out'.op = OpAudit)
          => /\ ~out'.raised
             /\ \A i \in 1..Len(reg) :
                   IssuesOf(reg[i], out'.naming) # {}
                       => /\ i \notin RenameCalled(out.calls)
                          /\ ~NeedsRename(reg[i].asset_name, reg[i].asset_class)]_vars

\* an audit directly after a fix that renamed assets, all with success; the
\* audit lists a naming issue for an asset the fix skipped
C24_Witness ==
    /\ out.op = OpAudit
    /\ prev.op = OpFixNames
    /\ prev.changed > 0
    /\ prev.calls = prev.changed
    /\ out.naming # <<>>

\* C25, as stated: on_fix_names issues a rename_asset call only for assets
\* whose name the naming check flags; an asset whose name passes the check
\* keeps its name.
C25_RenamesOnlyFlagged ==
    [][out'.op = OpFixNames =>
          \A i \in 1..Len(reg) :
              bad_name(reg[i].asset_name) = None
                  => /\ i \notin RenameCalled(out'.calls)
                     /\ reg'[i].asset_name = reg[i].asset_name]_vars

\* C25, amended: on_fix_names issues a rename_asset call for an asset under
\* /Game exactly when its name does not start with the prefix of its class,
\* whatever the naming check says of the name; an asset whose name starts
\* with the prefix is left as it is, also when the check flags the name, and
\* a name without the prefix that passes the check gets the prefix and the
\* cleaned name when the call succeeds.
C25_RenamesByPrefixOnly ==
    [][out'.op = OpFixNames =>
          \A i \in 1..Len(reg) :
              LET name == reg[i].asset_name
                  prefix == get_prefix_for_class(reg[i].asset_class)
              IN  IF is_under_game(reg[i]) /\ ~StartsWith(name, prefix)
                  THEN /\ i \in RenameCalled(out'.calls)
                       /\ reg'[i].asset_name
                              \in {name, prefix \o clean_asset_name(name)}
                  ELSE /\ i \notin RenameCalled(out'.calls)
                       /\ reg'[i] = reg[i]]_vars

\* on_fix_names has renamed "Rock", which passes the naming check, and has
\* left "SM_crate 01", which the check flags, as it was
C25_Witness ==
    /\ out.op = OpFixNames
    /\ <<NameRock, <<"S","M","_","R","o","c","k">> >> \in Range(out.renamed)
    /\ \E i \in 1..Len(reg) :
          /\ reg[i].asset_name = NamePrefixedSpace
          /\ bad_name(reg[i].asset_name) = ContainsSpaces
          /\ i \notin RenameCalled(out.calls)

\* a name that holds no space, does not begin with 'New' or 'Untitled' and
\* begins with an upper-case letter
PassesValidator(name) ==
    /\ Space \notin Range(name)
    /\ ~StartsWith(name, StrNew)
    /\ ~StartsWith(name, StrUntitled)
    /\ name # <<>>
    /\ name[1] \in UpperSet

\* C26: every new name on_fix_names passes to rename_asset, and every new
\* name of its returned list, passes the naming check and begins with the
\* prefix of the asset's class, also when the old name holds separators
\* only.
C26_NewNamesValid ==
    [][out'.op = OpFixNames =>
          /\ \A k \in 1..Len(out'.calls) :
                LET new == out'.calls[k][3]
                    class == reg[out'.calls[k][2]].asset_class
                IN  /\ PassesValidator(new)
                    /\ bad_name(new) = None
                    /\ StartsWith(new, get_prefix_for_class(class))
          /\ \A n \in 1..Len(out'.renamed) :
                \E k \in 1..Len(out'.calls) :
                    /\ out'.calls[k][3] = out'.renamed[n][2]
                    /\ reg[out'.calls[k][2]].asset_name = out'.renamed[n][1]]_vars

\* the name "-_-" has been renamed to "SM_"
C26_Witness ==
    /\ out.op = OpFixNames
    /\ <<NameSeparators, <<"S","M","_">> >> \in Range(out.renamed)

\* the package path of an asset is the /Game folder or lies below it
InContentRoot(a) ==
    \/ a.package_path = StrGame
    \/ StartsWith(a.package_path, StrGame \o <<"/">>)

\* the positions of the assets for which calls holds a call
Called(calls) == {calls[k][2] : k \in 1..Len(calls)}

\* C27, as stated: an asset whose package path is not under the /Game
\* folder, such as one under /GameFeatures, is in no list of an audit or an
\* unused scan, gets no rename, set or save call, and keeps its name and
\* flag.
C27_OnlyContentRoot ==
    [][\A i \in 1..Len(reg) :
          ~InContentRoot(reg[i]) =>
              /\ IssuesOf(reg[i], out'.missing \o out'.naming
                                      \o out'.nanite \o out'.unused) = {}
              /\ i \notin Called(out'.calls)
              /\ reg'[i].asset_name = reg[i].asset_name
              /\ reg'[i].nanite = reg[i].nanite]_vars

---------------------------------------------------------------------------
(* Claims on the visibility tools *)

\* C28, as stated: once restore_visibility has run, no actor the tool hid
\* is still hidden; and at every moment hidden_actors holds every actor the
\* tool has hidden and not yet un-hidden (the level opens with every actor
\* visible, and only the tool hides actors).
C28_RestoreLeavesNothingHidden ==
    /\ out.op = OpRestore => \A a \in Actors : ~level.hidden[a]
    /\ \A a \in Actors :
          level.hidden[a] => a \in Range(tool.hidden_actors)

\* C29, as stated: an isolate_selected that runs with no actor selected
\* changes no hidden flag and leaves hidden_actors as it was.
C29_RejectedIsolateChangesNothing ==
    [][(out'.op = OpIsolate /\ level.selected = {}) =>
          /\ level'.hidden = level.hidden
          /\ tool'.hidden_actors = tool.hidden_actors]_vars

\* C30, as stated: once disable_ghost_mode has run, every material slot of
\* every actor holds the material it held when the level was opened; and
\* the wireframe material is never recorded as an original material.
C30_GhostRoundTrip ==
    /\ out.op = OpNormal =>
          \A a \in Actors : level.materials[a] = OpenedLevel.materials[a]
    /\ \A a \in DOMAIN tool.original_materials :
          GhostMaterial \notin Range(tool.original_materials[a])

====
